---- MODULE Spec2Model ----
(***************************************************************************)
(* The Video view of twilio-video-chat (src/src/views/Video.vue): the     *)
(* component's data, the DOM under #participants, the window/document     *)
(* handlers and the closure state of createChat, driven by the events of  *)
(* the video SDK (room, participants, publications) and of the browser.   *)
(*                                                                         *)
(* One action is one run-to-completion JavaScript job: an event together   *)
(* with every listener the component registered for it, or the segment of  *)
(* an async function between two awaits.                                   *)
(***************************************************************************)
EXTENDS Integers, Sequences, FiniteSets, TLC

\* ---------------------------------------------------------------- bounds
\* Remote participants that may ever be in the room (each sid joins once).
MaxRemote == 2
\* Publications that the remote participants may ever make, all together.
MaxPublications == 2
\* LocalVideoTracks that createLocalVideoTrack may hand out in a session.
MaxNewTracks == 1

\* ------------------------------------------------------------ identities
\* room.localParticipant.sid; remote sids are 1..MaxRemote, given out in the
\* order in which the participants come to the room.
LocalSid == 0
RemoteSids == 1..MaxRemote
Kinds == {"audio", "video"}

\* A track is named by <<sid of its publisher, kind, serial>>. A remote
\* publication and the track it carries share the name; a participant's
\* publications of one kind take the serials 1, 2, ... in turn.
RemotePubs == RemoteSids \X Kinds \X (1..MaxPublications)
LocalAudioTrack == <<LocalSid, "audio", 0>>
LocalVideo(i) == <<LocalSid, "video", i>>
LocalVideoTracks == {LocalVideo(i) : i \in 0..MaxNewTracks}
Tracks == RemotePubs \cup {LocalAudioTrack} \cup LocalVideoTracks

PubsOf(sid) == {pub \in RemotePubs : pub[1] = sid}

\* Publication states within the bound on the publications ever made.
WithinPublications(ps) ==
    Cardinality({pub \in RemotePubs : ps[pub] # "none"}) <= MaxPublications

\* The serials of pubs are taken in turn.
InTurn(pubs) ==
    \A pub \in pubs : pub[3] > 1 => <<pub[1], pub[2], pub[3] - 1>> \in pubs

\* The publication states in which exactly the publications pubs exist and
\* those of subscribed carry a track.
PubStates(pubs, subscribed) ==
    [pub \in RemotePubs |-> IF pub \in subscribed THEN "subscribed"
                            ELSE IF pub \in pubs THEN "unsubscribed"
                            ELSE "none"]

VARIABLES
    isMobile,            \* result of isMobile() in this browser
    docHidden,           \* document.visibilityState === "hidden"
    loading,             \* data.loading
    room,                \* data.room: "null" or "room"
    chat,                \* the promise returned by createChat
    roomState,           \* SDK: "connecting", "failed", "connected", "disconnected"
    disconnectCalled,    \* SDK: room.disconnect() called, 'disconnected' not yet emitted
    disconnectError,     \* SDK: the error the Room emitted 'disconnected' with
    participants,        \* SDK: room.participants, per remote sid "none", "in", "gone"
    pubState,            \* SDK: per remote publication "none", "unsubscribed", "subscribed", "removed"
    published,           \* SDK: local video tracks published in the room
    publishing,          \* local video tracks whose publishTrack promise is awaited
    announcing,          \* SDK: published local tracks whose "trackPublished" is yet to be emitted
    creating,            \* visibility handlers awaiting createLocalVideoTrack
    created,             \* number of LocalVideoTracks created by createLocalVideoTrack
    stopped,             \* local video tracks on which stop() took effect
    localVideoTrack,     \* createChat's closure variable
    dom,                 \* the view: DOM, messageState, attachments, SDK listeners
    roomListeners,       \* room.on("participantConnected" / "participantDisconnected")
    disconnectedListener,\* room.once("disconnected") is registered and has not fired
    onbeforeunload,      \* window.onbeforeunload is set
    onpagehide,          \* window.onpagehide is set
    onvisibilitychange,  \* document.onvisibilitychange is set
    teardowns,           \* runs of the room 'disconnected' listener
    mute                 \* the local audio track's isEnabled and the .toggle-mute button's innerHTML

vars == <<isMobile, docHidden, loading, room, chat, roomState,
          disconnectCalled, disconnectError, participants, pubState, published, publishing,
          announcing, creating, created, stopped, localVideoTrack, dom, roomListeners,
          disconnectedListener, onbeforeunload, onpagehide, onvisibilitychange,
          teardowns, mute>>

\* ------------------------------------------------------------------- DOM
\* dom.children    : the participant containers under #participants, in order
\* dom.display     : style.display of the .message element ("" = stylesheet's flex)
\* dom.attached    : per track, the media elements it is attached to; an element
\*                   is <<id of its container, tag>>
\* dom.messageState: data.messageState, written by setMessage
\* dom.trackPublishedOn : sids of the participants with a "trackPublished" listener
\* dom.subscribedOn     : <<publication, sid>> for each pair of "subscribed" and
\*                        "unsubscribed" listeners, sid being the participant
\*                        the listeners' closure holds
\* dom.thrown      : the running job has thrown a TypeError on a missing node
\* dom.uncaught    : some job so far ended in such a TypeError

\* document.createElement(tag) with the attributes the code sets on it
\* (playsinline on the video element only).
MediaElement(tag, isMuted) ==
    IF tag = "video"
    THEN [tag |-> tag, autoplay |-> TRUE, muted |-> isMuted, opacity |-> "0",
          playsinline |-> TRUE]
    ELSE [tag |-> tag, autoplay |-> TRUE, muted |-> isMuted, opacity |-> "0"]

\* participant.identity, which is not the sid.
Identity(sid) == <<"identity", sid>>

\* Index of the first element of seq satisfying Test, 0 if none.
FirstIndex(seq, Test(_)) ==
    IF \E i \in 1..Len(seq) : Test(seq[i])
    THEN CHOOSE i \in 1..Len(seq) :
            Test(seq[i]) /\ \A j \in 1..(i - 1) : ~Test(seq[j])
    ELSE 0

\* document.querySelector(`#${sid}`)
QueryContainer(d, sid) ==
    LET HasId(c) == c.id = sid IN FirstIndex(d.children, HasId)

\* document.querySelector(`#${sid} > ${kind}`): <<container index, child index>>
QueryMedia(d, sid, kind) ==
    LET HasTag(e) == e.tag = kind
        HasMedia(c) == c.id = sid /\ FirstIndex(c.elements, HasTag) # 0
        ci == FirstIndex(d.children, HasMedia)
    IN IF ci = 0 THEN <<0, 0>>
       ELSE <<ci, FirstIndex(d.children[ci].elements, HasTag)>>

\* One turn of a forEach loop: Rest applied to the state the turn leaves and
\* to what is left to visit, each computed once.
Loop(x, left, Rest(_, _)) ==
    CHOOSE r \in {Rest(v, w) : v \in {x}, w \in {left}} : TRUE

RemoveAt(seq, i) == SubSeq(seq, 1, i - 1) \o SubSeq(seq, i + 1, Len(seq))

\* A setupParticipantContainer that mutes every audio element.
setupParticipantContainer_MutesAudio(d, sid, className) ==
    LET container == [id |-> sid, className |-> className,
                      identity |-> Identity(sid),
                      elements |-> <<MediaElement("audio", TRUE),
                                     MediaElement("video", TRUE)>>]
    IN [d EXCEPT !.display = IF className # "local" THEN "none" ELSE @,
                 !.children = Append(@, container)]

setupParticipantContainer(d, sid, className) ==
    LET audio == MediaElement("audio", sid = LocalSid)
        video == MediaElement("video", TRUE)
        container == [id |-> sid, className |-> className,
                      identity |-> Identity(sid),
                      elements |-> <<audio, video>>]
    IN [d EXCEPT !.display = IF className # "local" THEN "none" ELSE @,
                 !.children = Append(@, container)]

attachTrack(d, track, sid) ==
    LET media == QueryMedia(d, sid, track[2])
    IN IF d.thrown THEN d
       ELSE IF media[1] = 0 THEN [d EXCEPT !.thrown = TRUE]
       ELSE [d EXCEPT !.children[media[1]].elements[media[2]].opacity = "",
                      !.attached[track] = @ \cup {<<sid, track[2]>>}]

detachTrack(d, track, sid) ==
    LET media == QueryMedia(d, sid, track[2])
    IN IF d.thrown THEN d
       ELSE IF media[1] = 0 THEN [d EXCEPT !.thrown = TRUE]
       ELSE [d EXCEPT !.children[media[1]].elements[media[2]].opacity = "0",
                      !.attached[track] = @ \ {<<sid, track[2]>>}]

\* A setMessage that shows the message without changing its state.
setMessage_KeepsState(d, state) == [d EXCEPT !.display = "flex"]

setMessage(d, state) ==
    [d EXCEPT !.messageState = state, !.display = "flex"]

\* A participantDisconnected that removes the first container under
\* #participants, whoever it belongs to.
participantDisconnected_RemovesFirst(d, sid) ==
    IF d.thrown THEN d
    ELSE IF d.children = <<>> THEN [d EXCEPT !.thrown = TRUE]
    ELSE setMessage([d EXCEPT !.children = Tail(@)], "disconnect")

\* A participantDisconnected that leaves the container in the DOM.
participantDisconnected_KeepsContainer(d, sid) ==
    IF d.thrown THEN d ELSE setMessage(d, "disconnect")

participantDisconnected(d, sid) ==
    LET participantContainer == QueryContainer(d, sid)
    IN IF d.thrown THEN d
       ELSE IF participantContainer = 0 THEN [d EXCEPT !.thrown = TRUE]
       ELSE setMessage([d EXCEPT !.children = RemoveAt(@, participantContainer)],
                       "disconnect")

\* A trackPublished that only waits for "subscribed", whatever the
\* publication already carries.
trackPublished_IgnoresTrack(d, publication, hasTrack, sid) ==
    [d EXCEPT !.subscribedOn = @ \cup {<<publication, sid>>}]

trackPublished(d, publication, hasTrack, sid) ==
    LET d1 == IF hasTrack THEN attachTrack(d, publication, sid) ELSE d
    IN IF d1.thrown THEN d1
       ELSE [d1 EXCEPT !.subscribedOn = @ \cup {<<publication, sid>>}]

\* participant.tracks.forEach(publication => this.trackPublished(...)):
\* tracks are the participant's publications, subscribed those with a track.
RECURSIVE ForEachTrack(_, _, _, _)
ForEachTrack(d, tracks, subscribed, sid) ==
    IF tracks = {} THEN d
    ELSE LET publication == CHOOSE t \in tracks : TRUE
             Rest(next, left) == ForEachTrack(next, left, subscribed, sid)
         IN Loop(trackPublished(d, publication, publication \in subscribed, sid),
                 tracks \ {publication}, Rest)

participantConnected(d, sid, className, tracks, subscribed) ==
    LET d1 == setupParticipantContainer(d, sid, className)
        d2 == ForEachTrack(d1, tracks, subscribed, sid)
    IN IF d2.thrown THEN d2
       ELSE [d2 EXCEPT !.trackPublishedOn = @ \cup {sid}]

\* room.participants.forEach(participant => this.participantConnected(...))
RECURSIVE ForEachConnected(_, _, _)
ForEachConnected(d, sids, ps) ==
    IF sids = {} THEN d
    ELSE LET sid == CHOOSE s \in sids : \A o \in sids : s <= o
             tracks == {pub \in PubsOf(sid) : ps[pub] \in {"unsubscribed", "subscribed"}}
             subscribed == {pub \in PubsOf(sid) : ps[pub] = "subscribed"}
             Rest(next, left) == ForEachConnected(next, left, ps)
         IN Loop(participantConnected(d, sid, "participant", tracks, subscribed),
                 sids \ {sid}, Rest)

\* room.participants.forEach(participant => this.participantDisconnected(...))
RECURSIVE ForEachDisconnected(_, _)
ForEachDisconnected(d, sids) ==
    IF sids = {} THEN d
    ELSE LET sid == CHOOSE s \in sids : \A o \in sids : s <= o
             Rest(next, left) == ForEachDisconnected(next, left)
         IN Loop(participantDisconnected(d, sid), sids \ {sid}, Rest)

\* publication.emit("subscribed", track): every listener registered on it runs.
RECURSIVE EmitSubscribed(_, _, _)
EmitSubscribed(d, publication, regs) ==
    IF regs = {} THEN d
    ELSE LET r == CHOOSE x \in regs : TRUE
             Rest(next, left) == EmitSubscribed(next, publication, left)
         IN Loop(IF r[1] = publication THEN attachTrack(d, publication, r[2]) ELSE d,
                 regs \ {r}, Rest)

\* publication.emit("unsubscribed", track)
RECURSIVE EmitUnsubscribed(_, _, _)
EmitUnsubscribed(d, publication, regs) ==
    IF regs = {} THEN d
    ELSE LET r == CHOOSE x \in regs : TRUE
             Rest(next, left) == EmitUnsubscribed(next, publication, left)
         IN Loop(IF r[1] = publication THEN detachTrack(d, publication, r[2]) ELSE d,
                 regs \ {r}, Rest)

\* The SDK unsubscribes every subscribed publication of a set (a leaving
\* participant's, or all of them when the room disconnects).
RECURSIVE UnsubscribeAll(_, _)
UnsubscribeAll(d, pubs) ==
    IF pubs = {} THEN d
    ELSE LET pub == CHOOSE x \in pubs : TRUE
             Rest(next, left) == UnsubscribeAll(next, left)
         IN Loop(EmitUnsubscribed(d, pub, d.subscribedOn), pubs \ {pub}, Rest)

\* A job starts with no exception in flight and leaves a trace of one it threw.
Job(d) == [d EXCEPT !.thrown = FALSE]
Done(d) == [d EXCEPT !.thrown = FALSE, !.uncaught = @ \/ d.thrown]

\* ------------------------------------------------------------ toggleMute
\* m is the one local audio publication's isTrackEnabled with the button's
\* innerHTML.
\* A toggleMute that leaves the button's text alone.
toggleMute_KeepsLabel(m) == [m EXCEPT !.isTrackEnabled = ~@]

toggleMute(m) ==
    IF m.isTrackEnabled
    THEN [isTrackEnabled |-> FALSE, innerHTML |-> "Unmute"]
    ELSE [isTrackEnabled |-> TRUE, innerHTML |-> "Mute"]

\* -------------------------------------------------------------- promises
Pending == [state |-> "pending", error |-> "none"]
Resolved == [state |-> "resolved", error |-> "none"]
Rejected(error) == [state |-> "rejected", error |-> error]

\* --------------------------------------------------------------- Init
\* created() has called createChat, which awaits connect().
Init ==
    /\ isMobile \in BOOLEAN
    /\ docHidden = FALSE
    /\ loading = TRUE
    /\ room = "null"
    /\ chat = Pending
    /\ roomState = "connecting"
    /\ disconnectCalled = FALSE
    /\ disconnectError = "none"
    /\ participants = [sid \in RemoteSids |-> "none"]
    /\ pubState = [pub \in RemotePubs |-> "none"]
    /\ published = {}
    /\ publishing = {}
    /\ announcing = {}
    /\ creating = 0
    /\ created = 0
    /\ stopped = {}
    /\ localVideoTrack = "undefined"
    /\ dom = [children |-> <<>>, display |-> "", messageState |-> "waiting",
              attached |-> [t \in Tracks |-> {}],
              trackPublishedOn |-> {}, subscribedOn |-> {},
              thrown |-> FALSE, uncaught |-> FALSE]
    /\ roomListeners = FALSE
    /\ disconnectedListener = FALSE
    /\ onbeforeunload = FALSE
    /\ onpagehide = FALSE
    /\ onvisibilitychange = FALSE
    /\ teardowns = 0
    /\ mute = [isTrackEnabled |-> TRUE, innerHTML |-> "Mute"]

\* ------------------------------------------------------------ createChat
\* createChat from the resolution of connect() to the end of the Promise
\* executor. present are the RemoteParticipants already in the Room and ps
\* the state of their publications.
createChat(present, ps) ==
    /\ roomState = "connecting"
    /\ roomState' = "connected"
    /\ participants' = [sid \in RemoteSids |-> IF sid \in present THEN "in" ELSE "none"]
    /\ pubState' = ps
    /\ published' = {LocalVideo(0)}
    /\ loading' = FALSE
    /\ room' = "room"
    /\ localVideoTrack' = LocalVideo(0)
    /\ LET d1 == participantConnected(Job(dom), LocalSid, "local",
                                      {LocalAudioTrack, LocalVideo(0)},
                                      {LocalAudioTrack, LocalVideo(0)})
           d2 == ForEachConnected(d1, present, ps)
       IN /\ dom' = Done(d2)
          \* an exception leaves the async function before the listeners
          \* and handlers are installed and rejects its promise
          /\ roomListeners' = ~d2.thrown
          /\ onbeforeunload' = ~d2.thrown
          /\ onpagehide' = (isMobile /\ ~d2.thrown)
          /\ onvisibilitychange' = (isMobile /\ ~d2.thrown)
          /\ disconnectedListener' = ~d2.thrown
          /\ chat' = IF d2.thrown THEN Rejected("TypeError") ELSE chat
    /\ UNCHANGED <<isMobile, mute, docHidden, disconnectCalled, disconnectError,
                   publishing, announcing, creating,
                   created, stopped, teardowns>>

ConnectResolves ==
    /\ roomState = "connecting"
    /\ \E present \in {1..n : n \in 0..MaxRemote} :
         \E pubs \in SUBSET UNION {PubsOf(sid) : sid \in present} :
           /\ Cardinality(pubs) <= MaxPublications
           /\ InTurn(pubs)
           /\ \E subscribed \in SUBSET pubs :
                 createChat(present, PubStates(pubs, subscribed))

\* A rejection of connect() that ends the loading state all the same.
ConnectRejects_StopsLoading ==
    /\ roomState = "connecting"
    /\ roomState' = "failed"
    /\ chat' = Rejected("ConnectError")
    /\ loading' = FALSE
    /\ UNCHANGED <<isMobile, mute, docHidden, room, disconnectCalled,
                   disconnectError, participants, pubState, published, publishing,
                   announcing, creating,
                   created, stopped, localVideoTrack, dom, roomListeners,
                   disconnectedListener, onbeforeunload, onpagehide,
                   onvisibilitychange, teardowns>>

\* connect() rejects: the await throws and createChat's promise rejects.
ConnectRejects ==
    /\ roomState = "connecting"
    /\ roomState' = "failed"
    /\ chat' = Rejected("ConnectError")
    /\ UNCHANGED <<isMobile, mute, docHidden, loading, room, disconnectCalled,
                   disconnectError, participants, pubState, published, publishing,
                   announcing, creating,
                   created, stopped, localVideoTrack, dom, roomListeners,
                   disconnectedListener, onbeforeunload, onpagehide,
                   onvisibilitychange, teardowns>>

\* ----------------------------------------------------- room membership
\* The SDK adds the participant to room.participants and emits
\* "participantConnected".
RemoteParticipantConnected(sid, ps) ==
    /\ roomState = "connected"
    /\ participants[sid] = "none"
    /\ \A other \in 1..(sid - 1) : participants[other] # "none"
    /\ participants' = [participants EXCEPT ![sid] = "in"]
    /\ pubState' = [pub \in RemotePubs |-> IF pub[1] = sid THEN ps[pub] ELSE pubState[pub]]
    /\ WithinPublications(pubState')
    /\ dom' = IF roomListeners
              THEN Done(participantConnected(Job(dom), sid, "participant",
                          {pub \in PubsOf(sid) : ps[pub] # "none"},
                          {pub \in PubsOf(sid) : ps[pub] = "subscribed"}))
              ELSE dom
    /\ UNCHANGED <<isMobile, mute, docHidden, loading, room, chat, roomState,
                   disconnectCalled, disconnectError, published, publishing,
                   announcing, creating, created,
                   stopped, localVideoTrack, roomListeners, disconnectedListener,
                   onbeforeunload, onpagehide, onvisibilitychange, teardowns>>

\* The SDK unsubscribes the leaving participant's tracks, deletes it from
\* room.participants and emits "participantDisconnected".
RemoteParticipantDisconnected(sid) ==
    /\ roomState = "connected"
    /\ participants[sid] = "in"
    /\ participants' = [participants EXCEPT ![sid] = "gone"]
    /\ pubState' = [pub \in RemotePubs |->
                      IF pub[1] = sid /\ pubState[pub] # "none" THEN "removed"
                      ELSE pubState[pub]]
    /\ LET d1 == UnsubscribeAll(Job(dom),
                                {pub \in PubsOf(sid) : pubState[pub] = "subscribed"})
       IN dom' = IF roomListeners THEN Done(participantDisconnected(d1, sid))
                 ELSE Done(d1)
    /\ UNCHANGED <<isMobile, mute, docHidden, loading, room, chat, roomState,
                   disconnectCalled, disconnectError, published, publishing,
                   announcing, creating, created,
                   stopped, localVideoTrack, roomListeners, disconnectedListener,
                   onbeforeunload, onpagehide, onvisibilitychange, teardowns>>

\* ------------------------------------------------- remote publications
SdkUnchangedByTracks ==
    UNCHANGED <<isMobile, mute, docHidden, loading, room, chat, roomState,
                disconnectCalled, disconnectError, participants, published, publishing,
                announcing, creating,
                created, stopped, localVideoTrack, roomListeners,
                disconnectedListener, onbeforeunload, onpagehide,
                onvisibilitychange, teardowns>>

\* participant.emit("trackPublished", publication), not yet subscribed
RemoteTrackPublished(pub) ==
    /\ roomState = "connected"
    /\ participants[pub[1]] = "in"
    /\ pubState[pub] = "none"
    /\ pubState' = [pubState EXCEPT ![pub] = "unsubscribed"]
    /\ WithinPublications(pubState')
    /\ InTurn({p \in RemotePubs : pubState'[p] # "none"})
    /\ dom' = IF pub[1] \in dom.trackPublishedOn
              THEN Done(trackPublished(Job(dom), pub, FALSE, pub[1]))
              ELSE dom
    /\ SdkUnchangedByTracks

\* publication.emit("subscribed", track)
TrackSubscribed(pub) ==
    /\ roomState = "connected"
    /\ pubState[pub] = "unsubscribed"
    /\ pubState' = [pubState EXCEPT ![pub] = "subscribed"]
    /\ dom' = Done(EmitSubscribed(Job(dom), pub, dom.subscribedOn))
    /\ SdkUnchangedByTracks

\* publication.emit("unsubscribed", track)
TrackUnsubscribed(pub) ==
    /\ roomState = "connected"
    /\ pubState[pub] = "subscribed"
    /\ pubState' = [pubState EXCEPT ![pub] = "unsubscribed"]
    /\ dom' = Done(EmitUnsubscribed(Job(dom), pub, dom.subscribedOn))
    /\ SdkUnchangedByTracks

\* The remote participant unpublishes: the SDK unsubscribes the track if it
\* is subscribed and drops the publication.
RemoteTrackUnpublished(pub) ==
    /\ roomState = "connected"
    /\ pubState[pub] \in {"unsubscribed", "subscribed"}
    /\ pubState' = [pubState EXCEPT ![pub] = "removed"]
    /\ dom' = IF pubState[pub] = "subscribed"
              THEN Done(EmitUnsubscribed(Job(dom), pub, dom.subscribedOn))
              ELSE dom
    /\ SdkUnchangedByTracks

\* ---------------------------------------------------- leaving the room
\* room.disconnect(): the SDK starts leaving a connected Room and does
\* nothing on one that is not connected.
\* The RemoteParticipants in room.participants.
InRoom == {sid \in RemoteSids : participants[sid] = "in"}

\* A trigger that forgets to call room.disconnect().
RoomDisconnect_NotCalled == disconnectCalled

RoomDisconnect == disconnectCalled \/ roomState = "connected"

UnchangedByDisconnect ==
    UNCHANGED <<isMobile, mute, docHidden, loading, room, chat, roomState,
                disconnectError, participants, pubState, published, publishing,
                announcing, creating,
                created, stopped, localVideoTrack, roomListeners,
                disconnectedListener, onbeforeunload, onpagehide,
                onvisibilitychange, teardowns>>

\* The Disconnect button, shown once loading is false.
disconnect ==
    /\ ~loading
    /\ dom' = setMessage(dom, "disconnect")
    /\ disconnectCalled' = RoomDisconnect
    /\ UnchangedByDisconnect

\* The Mute button, shown once loading is false.
ToggleMuteClicked ==
    /\ ~loading
    /\ mute' = toggleMute(mute)
    /\ UNCHANGED <<isMobile, docHidden, loading, room, chat, roomState,
                   disconnectCalled, disconnectError, participants, pubState,
                   published, publishing, announcing, creating, created,
                   stopped, localVideoTrack, dom, roomListeners,
                   disconnectedListener, onbeforeunload, onpagehide,
                   onvisibilitychange, teardowns>>

\* window "beforeunload"
BeforeUnload ==
    /\ onbeforeunload
    /\ disconnectCalled' = RoomDisconnect
    /\ dom' = dom
    /\ UnchangedByDisconnect

\* window "pagehide"
PageHide ==
    /\ onpagehide
    /\ disconnectCalled' = RoomDisconnect
    /\ dom' = dom
    /\ UnchangedByDisconnect

\* `if (isMobile)` in the "disconnected" listener tests the imported
\* function, not its result: it is always truthy.
IsMobileTruthy == TRUE

\* How the "disconnected" listener settles createChat's promise.
\* A listener that resolves whatever the Room reports.
Settle_AlwaysResolves(error) == Resolved

Settle(error) == IF error # "none" THEN Rejected(error) ELSE Resolved

\* What the "disconnected" listener leaves of the view: the containers of
\* the LocalParticipant and of every RemoteParticipant in the Room go.
\* A listener that forgets the LocalParticipant's container.
Teardown_RemoteOnly(d, remaining) ==
    LET Rest(next, left) == ForEachDisconnected(next, left)
    IN Loop(d, remaining, Rest)

Teardown(d, remaining) ==
    LET Rest(next, left) == ForEachDisconnected(next, left)
    IN Loop(participantDisconnected(d, LocalSid), remaining, Rest)

\* The Room emits "disconnected", with an error unless room.disconnect()
\* caused it. Before, the SDK unsubscribes the RemoteParticipants' tracks and
\* stops the LocalTracks the Room holds; pending publishTrack calls reject.
RoomDisconnected(error) ==
    /\ roomState = "connected"
    /\ error = "none" => disconnectCalled
    /\ roomState' = "disconnected"
    /\ disconnectCalled' = FALSE
    /\ disconnectError' = error
    /\ pubState' = [pub \in RemotePubs |->
                      IF pubState[pub] = "subscribed" THEN "unsubscribed"
                      ELSE pubState[pub]]
    /\ published' = {}
    /\ publishing' = {}
    /\ \E d0 \in {UnsubscribeAll(Job(dom),
                      {pub \in RemotePubs : pubState[pub] = "subscribed"})} :
         \E d1 \in {IF disconnectedListener THEN Teardown(d0, InRoom) ELSE d0} :
            /\ dom' = Done(d1)
            /\ chat' = IF disconnectedListener /\ ~d1.thrown
                       THEN Settle(error) ELSE chat
    /\ onbeforeunload' = (onbeforeunload /\ ~disconnectedListener)
    /\ onpagehide' = (onpagehide /\ ~(disconnectedListener /\ IsMobileTruthy))
    /\ onvisibilitychange' =
          (onvisibilitychange /\ ~(disconnectedListener /\ IsMobileTruthy))
    /\ stopped' = stopped \cup published \cup publishing
                    \cup (IF disconnectedListener THEN {localVideoTrack} ELSE {})
    /\ teardowns' = IF disconnectedListener THEN teardowns + 1 ELSE teardowns
    /\ disconnectedListener' = FALSE
    /\ UNCHANGED <<isMobile, mute, docHidden, loading, room, participants, announcing,
                   creating, created, localVideoTrack, roomListeners>>

\* ------------------------------------------------------ page visibility
UnchangedByVisibility ==
    UNCHANGED <<isMobile, mute, loading, room, chat, roomState, disconnectCalled,
                disconnectError, participants, pubState, roomListeners, disconnectedListener,
                onbeforeunload, onpagehide, onvisibilitychange, teardowns>>

\* Visibility is followed where it can matter: on a mobile browser, until
\* the handler is cleared.
VisibilityObserved ==
    isMobile /\ (roomState = "connecting" \/ onvisibilitychange)

\* document "visibilitychange" to hidden: with the handler installed, the
\* current LocalVideoTrack is stopped and unpublished (a publishTrack of it
\* still pending rejects).
VisibilityHidden ==
    /\ VisibilityObserved
    /\ ~docHidden
    /\ docHidden' = TRUE
    /\ IF onvisibilitychange
       THEN /\ stopped' = stopped \cup {localVideoTrack}
            /\ published' = published \ {localVideoTrack}
            /\ publishing' = publishing \ {localVideoTrack}
       ELSE UNCHANGED <<stopped, published, publishing>>
    /\ UNCHANGED <<announcing, creating, created, localVideoTrack, dom>>
    /\ UnchangedByVisibility

\* document "visibilitychange" to visible: with the handler installed, it
\* runs up to `await createLocalVideoTrack(...)`.
VisibilityVisible ==
    /\ VisibilityObserved
    /\ docHidden
    /\ docHidden' = FALSE
    /\ IF onvisibilitychange
       THEN /\ created + creating < MaxNewTracks
            /\ creating' = creating + 1
       ELSE UNCHANGED creating
    /\ UNCHANGED <<created, localVideoTrack, stopped, published, publishing,
                   announcing, dom>>
    /\ UnchangedByVisibility

\* createLocalVideoTrack resolves: the handler stores the new track and calls
\* publishTrack, which rejects at once on a disconnected Room.
CreateLocalVideoTrackResolves ==
    /\ creating > 0
    /\ creating' = creating - 1
    /\ created' = created + 1
    /\ localVideoTrack' = LocalVideo(created + 1)
    /\ publishing' = IF roomState = "connected"
                     THEN publishing \cup {LocalVideo(created + 1)}
                     ELSE publishing
    /\ UNCHANGED <<docHidden, stopped, published, announcing, dom>>
    /\ UnchangedByVisibility

\* createLocalVideoTrack rejects: the handler ends with its promise rejected.
CreateLocalVideoTrackRejects ==
    /\ creating > 0
    /\ creating' = creating - 1
    /\ UNCHANGED <<docHidden, created, localVideoTrack, stopped, published,
                   publishing, announcing, dom>>
    /\ UnchangedByVisibility

\* publishTrack resolves: the track is published, the handler's await ends
\* and the SDK schedules the LocalParticipant's "trackPublished" in a timer
\* of its own.
PublishTrackResolves(track) ==
    /\ track \in publishing
    /\ roomState = "connected"
    /\ publishing' = publishing \ {track}
    /\ published' = published \cup {track}
    /\ announcing' = announcing \cup {track}
    /\ UNCHANGED <<docHidden, creating, created, localVideoTrack, stopped, dom>>
    /\ UnchangedByVisibility

\* The timer fires: the LocalParticipant emits "trackPublished", which the
\* listener of participantConnected(room.localParticipant, ...) handles,
\* whatever has happened to the Room and the track in between.
LocalTrackPublished(track) ==
    /\ track \in announcing
    /\ announcing' = announcing \ {track}
    /\ dom' = IF LocalSid \in dom.trackPublishedOn
              THEN Done(trackPublished(Job(dom), track, TRUE, LocalSid))
              ELSE dom
    /\ UNCHANGED <<docHidden, creating, created, localVideoTrack, stopped,
                   published, publishing>>
    /\ UnchangedByVisibility

\* publishTrack rejects.
PublishTrackRejects(track) ==
    /\ track \in publishing
    /\ publishing' = publishing \ {track}
    /\ UNCHANGED <<docHidden, creating, created, localVideoTrack, stopped,
                   published, announcing, dom>>
    /\ UnchangedByVisibility

\* ------------------------------------------------------- specification
Next ==
    \/ ConnectResolves
    \/ ConnectRejects
    \/ \E sid \in RemoteSids :
         \E pubs \in SUBSET PubsOf(sid) :
           /\ InTurn(pubs)
           /\ \E subscribed \in SUBSET pubs :
                 RemoteParticipantConnected(sid, PubStates(pubs, subscribed))
    \/ \E sid \in RemoteSids : RemoteParticipantDisconnected(sid)
    \/ \E pub \in RemotePubs : RemoteTrackPublished(pub)
    \/ \E pub \in RemotePubs : TrackSubscribed(pub)
    \/ \E pub \in RemotePubs : TrackUnsubscribed(pub)
    \/ \E pub \in RemotePubs : RemoteTrackUnpublished(pub)
    \/ disconnect
    \/ ToggleMuteClicked
    \/ BeforeUnload
    \/ PageHide
    \/ \E error \in {"none", "TwilioError"} : RoomDisconnected(error)
    \/ VisibilityHidden
    \/ VisibilityVisible
    \/ CreateLocalVideoTrackResolves
    \/ CreateLocalVideoTrackRejects
    \/ \E track \in LocalVideoTracks : PublishTrackResolves(track)
    \/ \E track \in LocalVideoTracks : PublishTrackRejects(track)
    \/ \E track \in LocalVideoTracks : LocalTrackPublished(track)

Spec == Init /\ [][Next]_vars

\* The SDK answers room.disconnect() by emitting "disconnected".
FairSpec ==
    Spec /\ WF_vars(disconnectCalled /\ \E error \in {"none", "TwilioError"} : RoomDisconnected(error))

\* ================================================================ claims
ContainerIds == {dom.children[i].id : i \in 1..Len(dom.children)}
Element(track) == <<track[1], track[2]>>
RoomDisconnectedStep == \E error \in {"none", "TwilioError"} : RoomDisconnected(error)

\* C1: between createChat's synchronous setup and the handling of the Room's
\* "disconnected", the containers under #participants are exactly one for
\* the LocalParticipant and one for each RemoteParticipant in
\* room.participants, keyed by sid; no sid ever has two containers.
C1_ContainersMirrorRoom ==
    /\ roomState = "connected" => ContainerIds = {LocalSid} \cup InRoom
    /\ \A i, j \in 1..Len(dom.children) :
          dom.children[i].id = dom.children[j].id => i = j

\* A participant has left and another is in the Room beside the local one.
C1_Witness ==
    /\ roomState = "connected"
    /\ Len(dom.children) = 2
    /\ \E sid \in RemoteSids : participants[sid] = "gone"

\* C2: once "disconnected" has been handled, with or without an error, no
\* participant container remains and window.onbeforeunload,
\* window.onpagehide and document.onvisibilitychange are null, on mobile
\* and non-mobile browsers alike.
C2_TornDown ==
    roomState = "disconnected" =>
        /\ dom.children = <<>>
        /\ ~onbeforeunload
        /\ ~onpagehide
        /\ ~onvisibilitychange

\* A mobile session ended by an error with a RemoteParticipant still in it.
C2_Witness ==
    /\ roomState = "disconnected"
    /\ teardowns = 1
    /\ isMobile
    /\ disconnectError = "TwilioError"
    /\ InRoom # {}

\* C3: while the Room is connected, the Disconnect button, "beforeunload"
\* and (on mobile only) "pagehide" each call room.disconnect(); given that
\* the SDK then emits "disconnected", the teardown eventually runs, and it
\* runs at most once in a session.
C3_TriggersTearDownOnce ==
    /\ [](roomState = "connected" =>
            onbeforeunload /\ (onpagehide <=> isMobile))
    /\ [][(roomState = "connected" /\ (disconnect \/ BeforeUnload \/ PageHide))
            => disconnectCalled']_vars
    /\ (disconnectCalled ~> (roomState = "disconnected" /\ teardowns = 1))
    /\ [](teardowns <= 1)

\* The Room was left on request and the teardown has run.
C3_Witness ==
    /\ roomState = "disconnected"
    /\ disconnectError = "none"
    /\ teardowns = 1

\* C4: a remote track is attached to the element of its kind in its own
\* participant's container exactly while its publication is subscribed
\* (found subscribed, or after "subscribed", until "unsubscribed"); the
\* tracks the LocalParticipant publishes are attached to the local
\* container's elements once "trackPublished" has announced them; no track is ever attached to an element of
\* another participant or kind.
C4_TracksAttachedToOwnElement ==
    /\ \A pub \in RemotePubs :
          dom.attached[pub] =
            IF pubState[pub] = "subscribed" THEN {Element(pub)} ELSE {}
    /\ roomState = "connected" =>
          \A track \in (published \ announcing) \cup {LocalAudioTrack} :
              dom.attached[track] = {Element(track)}
    /\ \A track \in Tracks : dom.attached[track] \subseteq {Element(track)}
    /\ roomState = "connected" =>
          \A track \in Tracks : \A e \in dom.attached[track] :
              QueryMedia(dom, e[1], e[2])[1] # 0

\* One remote track is attached, another publication of the Room is not
\* subscribed, and a LocalVideoTrack published later is attached too.
C4_Witness ==
    /\ roomState = "connected"
    /\ \E pub \in RemotePubs :
          pubState[pub] = "subscribed" /\ dom.attached[pub] = {Element(pub)}
    /\ \E pub \in RemotePubs : pubState[pub] \in {"unsubscribed", "removed"}
    /\ LocalVideo(1) \in published
    /\ dom.attached[LocalVideo(1)] = {<<LocalSid, "video">>}

\* C5: createChat's promise is pending while the Room is connected and
\* settles once, when "disconnected" is handled: rejected with the SDK's
\* error if there is one, resolved otherwise, the participant containers
\* being gone by then.
C5_PromiseSettlesOnDisconnected ==
    /\ [](roomState = "connected" => chat = Pending)
    /\ [](roomState = "disconnected" =>
            /\ chat = IF disconnectError # "none"
                       THEN Rejected(disconnectError) ELSE Resolved
            /\ dom.children = <<>>)
    /\ [][chat # Pending => chat' = chat]_vars

\* The Room ended with an error and the promise is rejected with it.
C5_Witness ==
    /\ roomState = "disconnected"
    /\ chat = Rejected("TwilioError")

\* C6: messageState is "waiting" or "disconnect"; it is "waiting" until the
\* first of a RemoteParticipant's "participantDisconnected", the
\* Disconnect button and the "disconnected" teardown, and "disconnect"
\* from then on, also when RemoteParticipants connect afterwards.
C6_MessageState ==
    /\ [](dom.messageState \in {"waiting", "disconnect"})
    /\ []((roomState = "disconnected" \/ \E sid \in RemoteSids : participants[sid] = "gone")
            => dom.messageState = "disconnect")
    /\ [][disconnect => dom'.messageState = "disconnect"]_vars
    /\ [][dom.messageState # dom'.messageState =>
            /\ dom.messageState = "waiting"
            /\ \/ \E sid \in RemoteSids : RemoteParticipantDisconnected(sid)
               \/ disconnect
               \/ RoomDisconnectedStep]_vars

\* The message says "disconnect" and a RemoteParticipant that connected
\* afterwards has hidden it.
C6_Witness ==
    /\ roomState = "connected"
    /\ dom.messageState = "disconnect"
    /\ dom.display = "none"

\* C7: whenever the component's room reference is non-null, it refers to a
\* Room that is connected and has not emitted "disconnected"; it is null
\* before the join completes.
C7_RoomIsActiveSession ==
    /\ roomState = "connecting" => room = "null"
    /\ room # "null" => roomState = "connected"

\* C8: every container holds one audio and one video element; the audio
\* element is muted exactly in the LocalParticipant's container, every video
\* element is muted; the local container has class "local", the others
\* "participant", and while connected exactly one container is "local".
C8_ContainerShape ==
    /\ \A i \in 1..Len(dom.children) :
          LET c == dom.children[i]
          IN /\ Len(c.elements) = 2
             /\ {c.elements[k].tag : k \in 1..2} = Kinds
             /\ \A k \in 1..2 :
                   c.elements[k].muted =
                     (c.elements[k].tag = "video" \/ c.id = LocalSid)
             /\ c.className = IF c.id = LocalSid THEN "local" ELSE "participant"
    /\ roomState = "connected" =>
          Cardinality({i \in 1..Len(dom.children) :
                          dom.children[i].className = "local"}) = 1

\* The local container and those of all the remote participants.
C8_Witness ==
    /\ roomState = "connected"
    /\ Len(dom.children) = MaxRemote + 1

\* C9: on a mobile browser while connected, handling a change to hidden
\* stops and unpublishes the current LocalVideoTrack and handling a change
\* to visible leads to a new current LocalVideoTrack being published; under
\* every interleaving no LocalVideoTrack is published while the page is
\* hidden: none is left published by the hidden handler and none becomes
\* published while the page stays hidden.
C9_NothingPublishedWhileHidden ==
    /\ [][(onvisibilitychange /\ ~docHidden /\ docHidden')
            => (localVideoTrack \in stopped' /\ published' = {})]_vars
    /\ [][(onvisibilitychange /\ docHidden /\ docHidden')
            => published' \subseteq published]_vars

\* C10: once the session has ended and no asynchronous handler is pending,
\* every LocalVideoTrack the component held is stopped and none is
\* published.
C10_TracksStoppedAfterSession ==
    (roomState = "disconnected" /\ creating = 0 /\ publishing = {}) =>
        \A i \in 0..created :
            LocalVideo(i) \in stopped /\ LocalVideo(i) \notin published

\* C11: every attachTrack, detachTrack and participantDisconnected finds the
\* container (and the media element) of the participant it is called for,
\* under every ordering of "trackPublished", "subscribed", "unsubscribed",
\* "participantDisconnected", "disconnected" and the resumption of a pending
\* visibility handler: no job ever ends in a TypeError on a missing node.
C11_HandlersFindTheirNodes == ~dom.uncaught

\* C12: while the Room is connected, the .message element is displayed
\* exactly when no RemoteParticipant's container exists, however many
\* RemoteParticipants join and leave.
C12_MessageShownIffAlone ==
    roomState = "connected" =>
        ((dom.display # "none") <=> (ContainerIds \ {LocalSid} = {}))

\* The containers of d without the one keyed by sid, in their order.
WithoutContainer(d, sid) ==
    LET Other(c) == c.id # sid IN SelectSeq(d.children, Other)

\* C13: participantDisconnected(p) for a RemoteParticipant removes exactly
\* the container keyed by p's sid; the containers of the LocalParticipant
\* and of every other RemoteParticipant, and the tracks attached to them,
\* are unchanged. Stated of the method on every state that has p's
\* container, and of every "participantDisconnected" the Room emits.
C13_RemovesOnlyOwnContainer ==
    /\ [](\A sid \in ContainerIds \ {LocalSid} :
            LET d == participantDisconnected(dom, sid)
            IN /\ d.children = WithoutContainer(dom, sid)
               /\ d.attached = dom.attached)
    /\ [][\A sid \in RemoteSids : RemoteParticipantDisconnected(sid) =>
            /\ dom'.children = WithoutContainer(dom, sid)
            /\ \A track \in Tracks :
                  track[1] # sid => dom'.attached[track] = dom.attached[track]]_vars

\* A RemoteParticipant has left while another, with a track attached, and
\* the LocalParticipant keep their containers.
C13_Witness ==
    /\ roomState = "connected"
    /\ \E sid \in RemoteSids : participants[sid] = "gone"
    /\ Len(dom.children) = 2
    /\ \E pub \in RemotePubs : dom.attached[pub] = {Element(pub)}

\* C14: in every container, the element of each kind has its opacity
\* override cleared exactly when at least one track is attached to it and
\* has opacity 0 otherwise, also when a participant has several subscribed
\* tracks of one kind.
C14_VisibleIffTrackAttached ==
    \A i \in 1..Len(dom.children) :
        LET c == dom.children[i]
        IN \A k \in 1..Len(c.elements) :
              /\ c.elements[k].opacity \in {"", "0"}
              /\ (c.elements[k].opacity = "") <=>
                    (\E track \in Tracks :
                        <<c.id, c.elements[k].tag>> \in dom.attached[track])

\* C15: if connect() rejects nothing changes: loading stays true, the room
\* reference null, no container is created and no window or document
\* handler installed; if it resolves, loading becomes false and the room
\* reference is set in the same step. In every state loading is false
\* exactly when the room reference is non-null, and loading never becomes
\* true again.
C15_LoadingUntilConnected ==
    /\ [](loading <=> room = "null")
    /\ [](roomState = "failed" =>
            /\ loading
            /\ room = "null"
            /\ dom.children = <<>>
            /\ ~onbeforeunload /\ ~onpagehide /\ ~onvisibilitychange)
    /\ [][ConnectRejects =>
            UNCHANGED <<loading, room, dom, onbeforeunload, onpagehide,
                        onvisibilitychange, roomListeners,
                        disconnectedListener>>]_vars
    /\ [][ConnectResolves => (~loading' /\ room' # "null")]_vars
    /\ [][~loading => ~loading']_vars

\* connect() has rejected.
C15_Witness ==
    /\ roomState = "failed"
    /\ chat = Rejected("ConnectError")
    /\ loading

\* C16: with one local audio publication, each toggleMute flips the local
\* audio track between enabled and disabled, so two calls in a row restore
\* the state; the button reads "Unmute" exactly when the track is disabled
\* and "Mute" exactly when it is enabled; toggleMute changes no container,
\* no attachment and not the status message.
C16_ToggleMute ==
    /\ [](mute.innerHTML = IF mute.isTrackEnabled THEN "Mute" ELSE "Unmute")
    /\ [](toggleMute(toggleMute(mute)) = mute)
    /\ [][ToggleMuteClicked =>
            /\ mute'.isTrackEnabled = ~mute.isTrackEnabled
            /\ dom' = dom]_vars

\* The local audio track is disabled while RemoteParticipants are shown.
C16_Witness ==
    /\ roomState = "connected"
    /\ ~mute.isTrackEnabled
    /\ mute.innerHTML = "Unmute"
    /\ Len(dom.children) > 1

====
